---- MODULE Spec2Model ----
(***************************************************************************)
(* A model of three parts of flux:                                         *)
(*   - the client-side poller (await / awaitJob / awaitSync / backoff),    *)
(*   - the git checkout manager (Clone, WorkingClone, Clean,               *)
(*     CommitAndPush, GetNote, Pull, MoveTagAndPush),                      *)
(*   - the registration of daemons (RegisterV4/V5/V6, doRegister).         *)
(* Time is counted in units of 100ms, the poller's initial delay.          *)
(***************************************************************************)
EXTENDS Integers, Sequences, FiniteSets, TLC

(***************************************************************************)
(* Bounds of the model.                                                    *)
(***************************************************************************)
\* largest timeout handed to backoff when it is run on its own
MaxTimeout == 6
\* largest initialDelay handed to backoff when it is run on its own
MaxInitialDelay == 2
\* largest factor / maxFactor handed to backoff when it is run on its own
MaxFactorArg == 3
\* the counter of predicate invocations saturates here
MaxCalls == 4
\* Clone and WorkingClone are called at most this many times
MaxCheckouts == 2
\* commits that exist, the upstream's first one included
MaxCommits == 3
\* registration requests that are served, concurrently
MaxHandlers == 2

(***************************************************************************)
(* Program constants of the poller (part_000:43 and :66), in 100ms units.  *)
(***************************************************************************)
AwaitInitialDelay == 1
AwaitFactor == 2
AwaitMaxFactor == 100
AwaitTimeout == 600

nil == "nil"
ErrTimeout == "timeout"

Min(a, b) == IF a < b THEN a ELSE b

VARIABLES
    \* ---- poller ----
    entry,          \* the function that was called: backoff, await, awaitJob, awaitSync
    sync,           \* await's sync argument
    syncArg,        \* the commitRef argument awaitSync was called with
    f,              \* the predicate backoff is polling: generic, job, sync, none
    pc,             \* loop (line 76 condition), call (line 77), after (line 82), done
    initialDelay, factor, maxFactor, timeout,   \* backoff's parameters
    maxDelay, finish, delay,                    \* backoff's locals
    now,            \* the clock
    lastOk, lastErr,    \* what the last predicate invocation returned
    calls,          \* predicate invocations so far (saturating at MaxCalls)
    firstTerminal,  \* the invocation that first reported done or an error (0: none)
    sleepsAfterTerminal, \* sleeps taken after that invocation
    wait, prevWait, \* the last two waits between invocations (-1: none yet)
    lastStatus,     \* the last JobStatus reply
    sawQueued,      \* a poll has observed the job queued
    lastSync,       \* the last SyncStatus reply
    result,         \* the variable the job predicate assigns (line 53)
    stdout,         \* what await has written
    ret,            \* the error the called function returned
    retResult,      \* the metadata awaitJob returned
    \* ---- git ----
    fs,             \* the directories that exist under os.TempDir()
    co,             \* the Checkouts Clone and WorkingClone have returned, in order
    cleans,         \* per Checkout of co: the calls of Clean on it (counted up to 2)
    head,           \* per clone: the branch's commits, oldest first; HEAD is the last
    notes,          \* per clone: the notes ref, a set of <<commit, note body>>
    dirtyIn,        \* per clone: tracked files under the subpath are modified
    dirtyOut,       \* per clone: tracked files elsewhere are modified
    rhead,          \* the upstream's branch
    rnotes,         \* the upstream's notes ref ({}: it has none)
    tag,            \* per clone: the commit the sync tag is at (0: no such tag)
    rtag,           \* the upstream's sync tag
    keyMode,        \* the permissions of the key file: 0644 or 0400
    nextCommit,     \* the next commit to be created
    produced,       \* the commits CommitAndPush(message, note) returned nil for
    op,             \* the last operation and what it returned
    \* ---- registration ----
    handler,        \* per request: where doRegister is, its locals, what it answered
    daemons         \* the registry: per instance, the request whose daemon is registered

pollVars == <<entry, sync, syncArg, f, pc, initialDelay, factor, maxFactor, timeout,
              maxDelay, finish, delay, now, lastOk, lastErr, calls, firstTerminal,
              sleepsAfterTerminal, wait, prevWait, lastStatus, sawQueued, lastSync,
              result, stdout, ret, retResult>>

gitVars == <<fs, co, cleans, head, notes, dirtyIn, dirtyOut, rhead, rnotes, tag, rtag,
             keyMode, nextCommit, produced, op>>

regVars == <<handler, daemons>>

vars == <<pollVars, gitVars, regVars>>

(***************************************************************************)
(* Values the poller handles.                                              *)
(***************************************************************************)
\* a revision is a sequence of characters, so that its short form is computed
EmptyRevision == <<>>
LongRevision == <<"d", "e", "a", "d", "b", "e", "e", "f">>
Revisions == {EmptyRevision, LongRevision}

Metadata(rev) == [kind |-> "CommitEventMetadata", Revision |-> rev]
\* the zero value of history.CommitEventMetadata
ZeroMetadata == Metadata(EmptyRevision)
\* a job result that is not commit metadata
OtherResult == [kind |-> "other", Revision |-> EmptyRevision]
\* no metadata was returned
NoMetadata == [kind |-> "none", Revision |-> EmptyRevision]

\* history.CommitEventMetadata.ShortRevision: the first 7 characters
ShortRevision(m) ==
    IF Len(m.Revision) <= 7 THEN m.Revision ELSE SubSeq(m.Revision, 1, 7)

\* what client.JobStatus can answer: an error, or a job status
StatusReplies ==
    {[err |-> "EStatus", StatusString |-> "", Result |-> NoMetadata, Error |-> nil]}
    \cup {[err |-> nil, StatusString |-> s, Result |-> NoMetadata, Error |-> nil] :
            s \in {"queued", "running"}}
    \cup {[err |-> nil, StatusString |-> "failed", Result |-> NoMetadata, Error |-> e] :
            e \in {nil, "EJob"}}
    \cup {[err |-> nil, StatusString |-> "succeeded", Result |-> r, Error |-> nil] :
            r \in {Metadata(rev) : rev \in Revisions} \cup {OtherResult}}
NoStatus == [err |-> nil, StatusString |-> "", Result |-> NoMetadata, Error |-> nil]

\* what client.SyncStatus can answer: the outstanding refs and an error
SyncReplies == [refs : {<<>>, <<"r1">>}, err : {nil, "ESync"}]
NoSync == [refs |-> <<"none">>, err |-> nil]

\* a line of await's output
Line(text, arg) == [text |-> text, arg |-> arg]
JobQueued == Line("Job queued", <<>>)
NothingToDo == Line("Nothing to do", <<>>)
CommitPushed(m) == Line("Commit pushed: ", ShortRevision(m))
Applied == Line("Applied", <<>>)

(***************************************************************************)
(* backoff (part_000:73-94)                                                *)
(***************************************************************************)
\* Before with receiver and argument swapped
BeforeSwapped(t, u) == u < t

\* time.Time.Before
Before(t, u) == t < u

\* line 78 without the error test
FinishedOkOnly(o, e) == o

\* line 78: the predicate reported done, or an error
Finished(o, e) == o \/ e # nil

\* line 76 without the cap
NextDelayUncapped(d) == d * factor

\* line 76, the post statement: delay = min(delay*factor, maxDelay)
NextDelay(d) == Min(d * factor, maxDelay)

\* line 82 taken as true: the sleep is never skipped
TimeToTryAgainAlways(d) == TRUE

\* line 82: there will be time to try again after sleeping for d
TimeToTryAgain(d) == Before(now + d, finish)

\* awaitJob's local of line 42, never assigned
commitRef == EmptyRevision

\* line 61: awaitJob returns commitRef where the metadata is expected
AwaitJobResult == Metadata(commitRef)

\* the called function returns e
Finish(e, out, meta) ==
    /\ pc' = "done"
    /\ ret' = e
    /\ stdout' = out
    /\ retResult' = meta
    /\ UNCHANGED <<f, finish, delay, syncArg>>

\* await, lines 32-37: awaitSync has returned e
AwaitAfterSync(e) ==
    IF e # nil
    THEN Finish(e, stdout, NoMetadata)
    ELSE Finish(nil, Append(stdout, Applied), NoMetadata)

\* lines 19-24 without the error test of line 19
AwaitAfterJobWritesOnError(res, e) ==
    Finish(e, Append(stdout, NothingToDo), NoMetadata)

\* await, lines 18-32: awaitJob has returned (res, e)
AwaitAfterJob(res, e) ==
    IF e # nil
    THEN Finish(e, stdout, NoMetadata)
    ELSE IF res.Revision = EmptyRevision
    THEN Finish(nil, Append(stdout, NothingToDo), NoMetadata)
    ELSE IF ~sync
    THEN Finish(nil, Append(stdout, CommitPushed(res)), NoMetadata)
    ELSE \* awaitSync(client, commitRef) enters backoff, lines 66 and 74-76
         /\ stdout' = Append(stdout, CommitPushed(res))
         /\ f' = "sync"
         /\ syncArg' = commitRef
         /\ finish' = now + timeout
         /\ delay' = initialDelay
         /\ pc' = "loop"
         /\ UNCHANGED <<ret, retResult>>

\* backoff returns e to the function that called it
Return(e) ==
    CASE f = "job" ->
            IF entry = "awaitJob"
            THEN Finish(e, stdout, AwaitJobResult)
            ELSE AwaitAfterJob(AwaitJobResult, e)
      [] f = "sync" ->
            IF entry = "awaitSync"
            THEN Finish(e, stdout, NoMetadata)
            ELSE AwaitAfterSync(e)
      [] OTHER -> Finish(e, stdout, NoMetadata)

\* lines 77-80: f() has returned (o, e)
AfterCall(o, e) ==
    /\ lastOk' = o
    /\ lastErr' = e
    /\ calls' = Min(calls + 1, MaxCalls)
    /\ firstTerminal' = IF firstTerminal = 0 /\ (o \/ e # nil)
                        THEN Min(calls + 1, MaxCalls) ELSE firstTerminal
    /\ IF Finished(o, e)
       THEN Return(e)
       ELSE /\ pc' = "after"
            /\ UNCHANGED <<f, finish, delay, syncArg, stdout, ret, retResult>>
    /\ UNCHANGED <<entry, sync, initialDelay, factor, maxFactor, timeout, maxDelay,
                   now, sleepsAfterTerminal, wait, prevWait>>

\* the function is called: await prints (line 17) and calls awaitJob; awaitJob and
\* awaitSync call backoff (lines 43, 66), which sets its locals (lines 74-76)
Start ==
    /\ pc = "start"
    /\ UNCHANGED <<gitVars, regVars>>
    /\ pc' = "loop"
    /\ maxDelay' = initialDelay * maxFactor
    /\ finish' = now + timeout
    /\ delay' = initialDelay
    /\ stdout' = IF entry = "await" THEN <<JobQueued>> ELSE stdout
    /\ UNCHANGED <<entry, sync, syncArg, f, initialDelay, factor, maxFactor, timeout,
                   now, lastOk, lastErr, calls, firstTerminal, sleepsAfterTerminal,
                   wait, prevWait, lastStatus, sawQueued, lastSync, result, ret,
                   retResult>>

\* line 76, the loop condition, and line 86
BackoffLoop ==
    /\ pc = "loop"
    /\ UNCHANGED <<gitVars, regVars>>
    /\ IF Before(now, finish)
       THEN /\ pc' = "call"
            /\ UNCHANGED <<f, finish, delay, syncArg, stdout, ret, retResult>>
       ELSE Return(ErrTimeout)
    /\ UNCHANGED <<entry, sync, initialDelay, factor, maxFactor, timeout, maxDelay,
                   now, lastOk, lastErr, calls, firstTerminal, sleepsAfterTerminal,
                   wait, prevWait, lastStatus, sawQueued, lastSync, result>>

\* lines 82-84 and the post statement of line 76. time.Sleep(delay) returns once
\* delay has passed; a longer sleep is Tick at the loop condition.
BackoffSleep ==
    /\ pc = "after"
    /\ UNCHANGED <<gitVars, regVars>>
    /\ LET slept == IF TimeToTryAgain(delay) THEN delay ELSE 0
       IN  /\ now' = now + slept
           /\ wait' = slept
           /\ prevWait' = wait
           /\ sleepsAfterTerminal' =
                IF firstTerminal # 0 /\ slept > 0 THEN 1 ELSE sleepsAfterTerminal
    /\ delay' = NextDelay(delay)
    /\ pc' = "loop"
    /\ UNCHANGED <<entry, sync, syncArg, f, initialDelay, factor, maxFactor, timeout,
                   maxDelay, finish, lastOk, lastErr, calls, firstTerminal,
                   lastStatus, sawQueued, lastSync, result, stdout, ret, retResult>>

\* the clock advances. Time is read at lines 76 and 82 only, so time that passes
\* elsewhere is time that passes before the next of these; past the deadline
\* every reading compares the same, so the clock stops there.
Tick ==
    /\ pc \in {"loop", "after"}
    /\ UNCHANGED <<gitVars, regVars>>
    /\ now < finish
    /\ now' = now + 1
    /\ UNCHANGED <<entry, sync, syncArg, f, pc, initialDelay, factor, maxFactor,
                   timeout, maxDelay, finish, delay, lastOk, lastErr, calls,
                   firstTerminal, sleepsAfterTerminal, wait, prevWait, lastStatus,
                   sawQueued, lastSync, result, stdout, ret, retResult>>

\* backoff run on its own: any predicate
GenericPoll ==
    /\ pc = "call"
    /\ UNCHANGED <<gitVars, regVars>>
    /\ f = "generic"
    /\ \E o \in BOOLEAN, e \in {nil, "EPred"} : AfterCall(o, e)
    /\ UNCHANGED <<lastStatus, sawQueued, lastSync, result>>

(***************************************************************************)
(* awaitJob's predicate (part_000:43-60)                                   *)
(***************************************************************************)
JobPredicate(j) ==
    IF j.err # nil
    THEN [ok |-> TRUE, err |-> j.err, result |-> result]
    ELSE CASE j.StatusString = "failed" ->
                [ok |-> TRUE, err |-> j.Error, result |-> result]
           [] j.StatusString = "succeeded" ->
                IF j.Result.kind = "CommitEventMetadata"
                THEN [ok |-> TRUE, err |-> nil, result |-> j.Result]
                ELSE [ok |-> TRUE, err |-> "Unknown result type", result |-> ZeroMetadata]
           [] OTHER -> [ok |-> FALSE, err |-> nil, result |-> result]

JobPoll ==
    /\ pc = "call"
    /\ UNCHANGED <<gitVars, regVars>>
    /\ f = "job"
    /\ \E j \in StatusReplies :
          LET p == JobPredicate(j)
          IN  /\ lastStatus' = j
              /\ sawQueued' = (sawQueued \/ (j.err = nil /\ j.StatusString = "queued"))
              /\ result' = p.result
              /\ AfterCall(p.ok, p.err)
    /\ UNCHANGED lastSync

(***************************************************************************)
(* awaitSync's predicate (part_000:66-69)                                  *)
(***************************************************************************)
\* lines 67-68 with the query error dropped
SyncPredicateDropsError(r) == [ok |-> Len(r.refs) = 0, err |-> nil]

SyncPredicate(r) == [ok |-> (r.err = nil /\ Len(r.refs) = 0), err |-> r.err]

SyncPoll ==
    /\ pc = "call"
    /\ UNCHANGED <<gitVars, regVars>>
    /\ f = "sync"
    /\ \E r \in SyncReplies :
          LET p == SyncPredicate(r)
          IN  /\ lastSync' = r
              /\ AfterCall(p.ok, p.err)
    /\ UNCHANGED <<lastStatus, sawQueued, result>>

(***************************************************************************)
(* The git checkout manager (git/repo.go, git/operations.go, git/note.go). *)
(*                                                                         *)
(* A command that sets up a clone (TempDir, chmod, clone, config, notes    *)
(* get-ref) or that talks to the upstream (clone, fetch, pull, push) can   *)
(* fail for reasons outside the model; which one fails is an input of the  *)
(* operation. A command run in a clone that exists (diff, commit, notes    *)
(* add, notes show, rev-list) fails exactly when the state makes it fail.  *)
(***************************************************************************)
RepoURL == "git@upstream"
KeyPath == "/etc/key"
NotesRefName == "flux"

\* errors
ErrNoChanges == "no changes made in repo"
NoRepoError == "NoRepoError"
CloningError == "CloningError"
PushError == "PushError"

\* paths under os.TempDir(): <<k>> is the k-th temporary directory, <<k, "repo">>
\* the clone in it; <<>> is the empty path
EmptyDir == <<>>

\* every call is given the same directory
TmpDirFixed(k) == <<1>>

\* ioutil.TempDir: a new directory, of a name not in use
TmpDir(k) == <<k>>
\* operations.go:31: filepath.Join(workingDir, "repo")
RepoDir(k) == Append(TmpDir(k), "repo")
IsPrefix(p, q) == Len(p) <= Len(q) /\ SubSeq(q, 1, Len(p)) = p

\* os.RemoveAll(path): path and everything below it
RemoveAll(path, files) == {q \in files : ~IsPrefix(path, q)}

\* the zero value of Checkout
ZeroCheckout ==
    [url |-> "", Dir |-> EmptyDir, NotesRef |-> "", realNotesRef |-> ""]

\* the clone a Checkout's directory is in
DirId(c) == c.Dir[1]
\* the Checkout's directory exists
Live(c) == c.Dir # EmptyDir /\ c.Dir \in fs

Clones == 1..MaxCheckouts
NoHead == <<>>
\* the sync tag does not exist
NoTag == 0

\* git/note.go: Note{JobID, Spec}
Notes == [JobID : {"abc123"}, Spec : {"specA", "specB"}]
NoNote == [JobID |-> "", Spec |-> "nil"]

\* update.Spec's JSON form and its reading
EncodeSpec(x) == <<"json", x>>
DecodeSpec(b) == b[2]

\* json.Marshal(note), by the field tags of git/note.go
Marshal(note) ==
    <<"{", "JobID", note.JobID, "Spec", EncodeSpec(note.Spec), "}">>

\* git notes show: the note's body and a newline
Show(body) == Append(body, "\n")

\* json.NewDecoder(out).Decode(&note): the first JSON value of the output
Decode(out) ==
    IF Len(out) >= 6 /\ out[1] = "{" /\ out[2] = "JobID" /\ out[4] = "Spec" /\ out[6] = "}"
    THEN [note |-> [JobID |-> out[3], Spec |-> DecodeSpec(out[5])], err |-> nil]
    ELSE [note |-> NoNote, err |-> "decode error"]

\* git notes --ref ref get-ref: the full name of the notes ref
getNotesRef(ref) == <<"refs/notes", ref>>

\* operations.go:104-110, rev-list --max-count 1 on its last line
headRevisionOldest(h) == h[1]

\* operations.go:104-110: the commit HEAD is at
headRevision(h) == h[Len(h)]

\* operations.go:87-89: git notes add, which refuses a commit that has a note
addNote(ns, rev, body) ==
    IF \E n \in ns : n[1] = rev
    THEN [notes |-> ns, err |-> "note exists"]
    ELSE [notes |-> ns \cup {<<rev, body>>}, err |-> nil]

\* operations.go:91-101
getNote(c, rev) ==
    IF ~Live(c)
    THEN [note |-> NoNote, err |-> "fatal"]
    ELSE IF ~\E n \in notes[DirId(c)] : n[1] = rev
    THEN [note |-> NoNote, err |-> "no note found"]
    ELSE Decode(Show((CHOOSE n \in notes[DirId(c)] : n[1] = rev)[2]))

\* git diff --quiet over the whole clone
checkWholeClone(c) == ~Live(c) \/ dirtyIn[DirId(c)] \/ dirtyOut[DirId(c)]

\* operations.go:163-167: git diff --quiet -- subdir returned an error
check(c) == ~Live(c) \/ dirtyIn[DirId(c)]

\* operations.go:43-52: git commit -a has something to commit
canCommit(c) == Live(c) /\ (dirtyIn[DirId(c)] \/ dirtyOut[DirId(c)])

\* what an operation leaves in op: its name, the Checkout it was called on (for
\* Clone and WorkingClone the one it returned), the error it returned, and as arg
\* for WorkingClone the Checkout it was called on, for MoveTagAndPush the ref it
\* was given and the commit the upstream's tag was at
OpWith(name, c, err, arg) == [name |-> name, c |-> c, err |-> err, arg |-> arg]
Op(name, c, err) == OpWith(name, c, err, <<>>)

\* a clone that does not exist has no state
Forget(fn, files, none) ==
    [k \in Clones |-> IF RepoDir(k) \in files THEN fn[k] ELSE none]

\* ---- Clone (repo.go:51-104) ----
CloneFailures ==
    {"none", "tempdir", "stat", "chmod", "clone", "config", "notesref", "fetch"}

\* head and notes are the state of the clone the returned Checkout is in; a clone
\* no Checkout was returned for is never read again, and its state is left out
CloneOutcome(files, mode, h, ns, c, err) ==
    [fs |-> files, keyMode |-> mode, head |-> h, notes |-> ns, checkout |-> c, err |-> err]

CloneResult(url, key, failAt, k) ==
    IF url = ""
    THEN CloneOutcome(fs, keyMode, NoHead, {}, ZeroCheckout, NoRepoError)
    ELSE IF failAt = "tempdir"
    THEN CloneOutcome(fs, keyMode, NoHead, {}, ZeroCheckout, "TempDir")
    ELSE LET fs1 == fs \cup {TmpDir(k)}
         IN
    IF key # "" /\ failAt = "stat"
    THEN CloneOutcome(fs1, keyMode, NoHead, {}, ZeroCheckout, "stat")
    ELSE IF key # "" /\ keyMode # "0400" /\ failAt = "chmod"
    THEN CloneOutcome(fs1, keyMode, NoHead, {}, ZeroCheckout, "chmod")
    ELSE \* the key is owner-read-only, or narrowKeyPerms has made it so
         LET mode == IF key # "" THEN "0400" ELSE keyMode
             fs2 == fs1 \cup {RepoDir(k)}
         IN
    IF failAt = "clone"
    THEN CloneOutcome(fs1, mode, NoHead, {}, ZeroCheckout, CloningError)
    ELSE IF failAt = "config"
    THEN CloneOutcome(fs2, mode, NoHead, {}, ZeroCheckout, "setting git config")
    ELSE IF failAt = "notesref"
    THEN CloneOutcome(fs2, mode, NoHead, {}, ZeroCheckout, "notes get-ref")
    ELSE IF failAt = "fetch"
    THEN CloneOutcome(fs2, mode, NoHead, {}, ZeroCheckout, "git fetch")
    ELSE \* the fetch brought the notes, or the upstream has no notes ref
         CloneOutcome(fs2, mode, rhead, rnotes,
                      [url |-> url, Dir |-> RepoDir(k),
                       NotesRef |-> NotesRefName,
                       realNotesRef |-> getNotesRef(NotesRefName)],
                      nil)

Clone ==
    /\ Len(co) < MaxCheckouts
    /\ \E url \in {"", RepoURL}, key \in {"", KeyPath}, failAt \in CloneFailures :
          LET k == Len(co) + 1
              r == CloneResult(url, key, failAt, k)
          IN  /\ fs' = r.fs
              /\ keyMode' = r.keyMode
              /\ head' = [head EXCEPT ![k] = r.head]
              /\ notes' = [notes EXCEPT ![k] = r.notes]
              /\ tag' = [tag EXCEPT ![k] = IF r.err = nil THEN rtag ELSE NoTag]
              /\ co' = Append(co, r.checkout)
              /\ op' = Op("Clone", k, r.err)
    /\ UNCHANGED <<cleans, dirtyIn, dirtyOut, rhead, rnotes, rtag, nextCommit,
                   produced>>
    /\ UNCHANGED <<pollVars, regVars>>

\* ---- WorkingClone (repo.go:109-136) ----
WorkingCloneFailures == {"none", "tempdir", "clone", "config", "fetch"}

\* a WorkingClone that returns the Checkout it was called on
WorkingCloneInPlace(c, failAt, k) ==
    IF ~Live(c)
    THEN CloneOutcome(fs, keyMode, NoHead, {}, ZeroCheckout, "git clone")
    ELSE CloneOutcome(fs, keyMode, head[DirId(c)], notes[DirId(c)], c, nil)

WorkingCloneResult(c, failAt, k) ==
    IF failAt = "tempdir"
    THEN CloneOutcome(fs, keyMode, NoHead, {}, ZeroCheckout, "TempDir")
    ELSE LET fs1 == fs \cup {TmpDir(k)}
             fs2 == fs1 \cup {RepoDir(k)}
         IN
    IF failAt = "clone" \/ ~Live(c)
    THEN CloneOutcome(fs1, keyMode, NoHead, {}, ZeroCheckout, "git clone")
    ELSE IF failAt = "config"
    THEN CloneOutcome(fs2, keyMode, NoHead, {}, ZeroCheckout, "setting git config")
    ELSE IF failAt = "fetch"
    THEN CloneOutcome(fs2, keyMode, NoHead, {}, ZeroCheckout, "git fetch")
    ELSE CloneOutcome(fs2, keyMode, head[DirId(c)], notes[DirId(c)],
                      [c EXCEPT !.Dir = RepoDir(k)], nil)

WorkingClone ==
    /\ Len(co) < MaxCheckouts
    /\ \E i \in 1..Len(co), failAt \in WorkingCloneFailures :
          LET k == Len(co) + 1
              r == WorkingCloneResult(co[i], failAt, k)
          IN  /\ fs' = r.fs
              /\ head' = [head EXCEPT ![k] = r.head]
              /\ notes' = [notes EXCEPT ![k] = r.notes]
              /\ tag' = [tag EXCEPT ![k] = IF r.err = nil THEN tag[DirId(co[i])]
                                            ELSE NoTag]
              /\ co' = Append(co, r.checkout)
              /\ op' = OpWith("WorkingClone", k, r.err, <<i>>)
    /\ UNCHANGED <<cleans, dirtyIn, dirtyOut, rhead, rnotes, rtag, keyMode,
                   nextCommit, produced>>
    /\ UNCHANGED <<pollVars, regVars>>

\* ---- Clean (repo.go:139-143) ----
\* Clean removing the temporary directory the clone is in, unguarded
CleanParent(c) == RemoveAll(SubSeq(c.Dir, 1, Len(c.Dir) - 1), fs)

CleanFs(c) == IF c.Dir # EmptyDir THEN RemoveAll(c.Dir, fs) ELSE fs

Clean ==
    /\ \E i \in 1..Len(co) :
          /\ fs' = CleanFs(co[i])
          /\ cleans' = [cleans EXCEPT ![i] = Min(cleans[i] + 1, 2)]
          /\ op' = Op("Clean", i, nil)
    /\ head' = Forget(head, fs', NoHead)
    /\ notes' = Forget(notes, fs', {})
    /\ dirtyIn' = Forget(dirtyIn, fs', FALSE)
    /\ dirtyOut' = Forget(dirtyOut, fs', FALSE)
    /\ tag' = Forget(tag, fs', NoTag)
    /\ UNCHANGED <<co, rhead, rnotes, rtag, keyMode, nextCommit, produced>>
    /\ UNCHANGED <<pollVars, regVars>>

\* ---- the caller rewrites files of a clone, under ManifestDir (repo.go:146-148)
\* or elsewhere ----
Mutate ==
    /\ \E i \in 1..Len(co), inManifestDir \in BOOLEAN :
          /\ Live(co[i])
          /\ IF inManifestDir
             THEN /\ dirtyIn' = [dirtyIn EXCEPT ![DirId(co[i])] = TRUE]
                  /\ UNCHANGED dirtyOut
             ELSE /\ dirtyOut' = [dirtyOut EXCEPT ![DirId(co[i])] = TRUE]
                  /\ UNCHANGED dirtyIn
          /\ op' = Op("Mutate", i, nil)
    /\ UNCHANGED <<fs, co, cleans, head, notes, rhead, rnotes, tag, rtag, keyMode,
                   nextCommit, produced>>
    /\ UNCHANGED <<pollVars, regVars>>

\* ---- CommitAndPush (repo.go:152-178) ----
\* operations.go:55-61: git push upstream branch notesRef. A ref the clone does
\* not have fails the push as a whole; otherwise each ref is updated when the
\* update is a fast-forward, and the push fails when one is not.
push(h, ns, network) ==
    IF network \/ ns = {}
    THEN [rhead |-> rhead, rnotes |-> rnotes, err |-> "git push"]
    ELSE [rhead |-> IF IsPrefix(rhead, h) THEN h ELSE rhead,
          rnotes |-> IF rnotes \subseteq ns THEN ns ELSE rnotes,
          err |-> IF IsPrefix(rhead, h) /\ rnotes \subseteq ns THEN nil ELSE "git push"]

CommitOutcome(h, ns, rh, rn, committed, rev, err) ==
    [head |-> h, notes |-> ns, rhead |-> rh, rnotes |-> rn, committed |-> committed,
     rev |-> rev, err |-> err]

CommitAndPushResult(c, note, network) ==
    LET d == DirId(c)
    IN
    IF ~check(c)
    THEN CommitOutcome(head[d], notes[d], rhead, rnotes, FALSE, 0, ErrNoChanges)
    ELSE IF ~canCommit(c)
    THEN CommitOutcome(head[d], notes[d], rhead, rnotes, FALSE, 0, "git commit")
    ELSE LET h1 == Append(head[d], nextCommit)
             an == IF note # NoNote
                   THEN addNote(notes[d], headRevision(h1), Marshal(note))
                   ELSE [notes |-> notes[d], err |-> nil]
         IN
    IF an.err # nil
    THEN CommitOutcome(h1, notes[d], rhead, rnotes, TRUE, nextCommit, an.err)
    ELSE LET p == push(h1, an.notes, network)
         IN  CommitOutcome(h1, an.notes, p.rhead, p.rnotes, TRUE, nextCommit,
                           IF p.err = nil THEN nil ELSE PushError)

CommitAndPush ==
    /\ \E i \in 1..Len(co), note \in Notes \cup {NoNote}, network \in BOOLEAN :
          /\ co[i].Dir # EmptyDir
          /\ LET d == DirId(co[i])
                 r == CommitAndPushResult(co[i], note, network)
             IN  /\ r.committed => nextCommit <= MaxCommits
                 /\ head' = [head EXCEPT ![d] = r.head]
                 /\ notes' = [notes EXCEPT ![d] = r.notes]
                 /\ dirtyIn' = IF r.committed THEN [dirtyIn EXCEPT ![d] = FALSE] ELSE dirtyIn
                 /\ dirtyOut' = IF r.committed THEN [dirtyOut EXCEPT ![d] = FALSE] ELSE dirtyOut
                 /\ rhead' = r.rhead
                 /\ rnotes' = r.rnotes
                 /\ nextCommit' = IF r.committed THEN nextCommit + 1 ELSE nextCommit
                 /\ produced' = IF r.err = nil /\ note # NoNote
                                THEN produced \cup {[c |-> i, rev |-> r.rev, note |-> note]}
                                ELSE produced
                 /\ op' = Op("CommitAndPush", i, r.err)
    /\ UNCHANGED <<fs, co, cleans, tag, rtag, keyMode>>
    /\ UNCHANGED <<pollVars, regVars>>

\* ---- Pull (repo.go:186-198) ----
\* a pull that merges what it cannot fast-forward
CanFastForwardOrMerge(h, rh) == TRUE

\* git pull --ff-only: the branches have not diverged
CanFastForward(h, rh) == IsPrefix(h, rh) \/ IsPrefix(rh, h)

\* the notes ref fetched as +ref:ref, which overwrites the local ref
fetchForced(local, remote) ==
    IF remote = {}
    THEN [notes |-> local, err |-> "Couldn't find remote ref"]
    ELSE [notes |-> remote, err |-> nil]

\* operations.go:71-76 with the refspec ref:ref of repo.go:193: git fetch of the
\* notes ref onto itself, which git refuses unless it is a fast-forward
fetch(local, remote) ==
    IF remote = {}
    THEN [notes |-> local, err |-> "Couldn't find remote ref"]
    ELSE IF ~(local \subseteq remote)
    THEN [notes |-> local, err |-> "git fetch: rejected"]
    ELSE [notes |-> remote, err |-> nil]

\* operations.go:64-69, git pull --ff-only, and then the fetch of the notes,
\* whose error is dropped when it is "Couldn't find remote ref".
\* failAt is the command that cannot reach the upstream.
PullResult(c, failAt) ==
    LET d == DirId(c)
    IN
    IF ~Live(c)
    THEN [head |-> head[d], notes |-> notes[d], err |-> "git pull: no directory"]
    ELSE IF failAt = "pull"
    THEN [head |-> head[d], notes |-> notes[d], err |-> "git pull: unreachable"]
    ELSE IF ~CanFastForward(head[d], rhead)
    THEN [head |-> head[d], notes |-> notes[d], err |-> "git pull: not fast-forward"]
    ELSE LET h1 == IF IsPrefix(head[d], rhead) THEN rhead ELSE head[d]
         IN
    IF failAt = "fetch"
    THEN [head |-> h1, notes |-> notes[d], err |-> "git fetch: unreachable"]
    ELSE LET ft == fetch(notes[d], rnotes)
         IN  [head |-> h1, notes |-> ft.notes,
              err |-> IF ft.err = "Couldn't find remote ref" THEN nil ELSE ft.err]

Pull ==
    /\ \E i \in 1..Len(co), failAt \in {"none", "pull", "fetch"} :
          /\ co[i].Dir # EmptyDir
          /\ LET d == DirId(co[i])
                 r == PullResult(co[i], failAt)
             IN  /\ head' = [head EXCEPT ![d] = r.head]
                 /\ notes' = [notes EXCEPT ![d] = r.notes]
                 /\ op' = Op("Pull", i, r.err)
    /\ UNCHANGED <<fs, co, cleans, dirtyIn, dirtyOut, rhead, rnotes, tag, rtag,
                   keyMode, nextCommit, produced>>
    /\ UNCHANGED <<pollVars, regVars>>

\* ---- MoveTagAndPush (repo.go:212-214) ----
\* the tag is pushed without --force: the upstream takes only a tag it does
\* not have
PushedTagUnforced(old, ref) == IF old = NoTag THEN ref ELSE old

\* operations.go:125, git push --force upstream tag <tag>: where the upstream's
\* tag is once the push has gone through
PushedTag(old, ref) == ref

\* operations.go:121-129. ref is a commit; git tag resolves it when the clone has
\* it. network: the upstream cannot be reached.
moveTagAndPush(c, ref, network) ==
    LET d == DirId(c)
    IN
    IF ~Live(c) \/ ~\E j \in 1..Len(head[d]) : head[d][j] = ref
    THEN [tag |-> tag[d], rtag |-> rtag, err |-> "moving tag"]
    ELSE IF network
    THEN [tag |-> ref, rtag |-> rtag, err |-> "pushing tag to origin"]
    ELSE [tag |-> ref, rtag |-> PushedTag(rtag, ref), err |-> nil]

MoveTagAndPush ==
    /\ \E i \in 1..Len(co), ref \in 1..MaxCommits, network \in BOOLEAN :
          /\ co[i].Dir # EmptyDir
          /\ LET r == moveTagAndPush(co[i], ref, network)
             IN  /\ tag' = [tag EXCEPT ![DirId(co[i])] = r.tag]
                 /\ rtag' = r.rtag
                 /\ op' = OpWith("MoveTagAndPush", i, r.err, <<ref, rtag>>)
    /\ UNCHANGED <<fs, co, cleans, head, notes, dirtyIn, dirtyOut, rhead, rnotes,
                   keyMode, nextCommit, produced>>
    /\ UNCHANGED <<pollVars, regVars>>

\* nothing has been cloned
GitIdle ==
    /\ fs = {}
    /\ co = <<>>
    /\ cleans = [k \in Clones |-> 0]
    /\ head = [k \in Clones |-> NoHead]
    /\ notes = [k \in Clones |-> {}]
    /\ dirtyIn = [k \in Clones |-> FALSE]
    /\ dirtyOut = [k \in Clones |-> FALSE]
    /\ rhead = <<1>>
    /\ rnotes = {}
    /\ tag = [k \in Clones |-> NoTag]
    /\ rtag = NoTag
    /\ keyMode = "0644"
    /\ nextCommit = 2
    /\ produced = {}
    /\ op = Op("none", 0, nil)

(***************************************************************************)
(* The registration of daemons (http/server/server.go:401-452, 504-510).   *)
(*                                                                         *)
(* Each request is served by its own task. doRegister blocks in the        *)
(* registry's RegisterDaemon, so a request is followed through three       *)
(* steps: the handler up to that call, the call's return, and the close.   *)
(* The websocket upgrade, the rpc clients and the registry are not part of *)
(* these files: the upgrade either gives a connection or an error, a       *)
(* client wraps the connection it is given, and the registry keeps, per    *)
(* instance, the daemon registered last and drops it before                *)
(* RegisterDaemon returns.                                                 *)
(***************************************************************************)
Handlers == 1..MaxHandlers

\* the values of the instance header; "" is a request without the header
Headers == {"", "tenantA", "tenantB"}
DefaultInstanceID == "<default-instance-id>"

\* server.go:504-510
getInstanceID(header) == IF header = "" THEN DefaultInstanceID ELSE header

InstanceIDs == {getInstanceID(x) : x \in Headers}

StatusBadRequest == 400
\* nothing was written to the response
NoStatusCode == 0

\* no rpc client was made
NoClient == [version |-> 0, conn |-> 0, closed |-> FALSE]
\* the client of one version over the connection given
NewClient(version, conn) == [version |-> version, conn |-> conn, closed |-> FALSE]

\* rpc.NewClientV4, as RegisterV4 wraps it (server.go:402-404)
NewClientV4 == [conn \in Handlers |-> NewClient(4, conn)]

\* the V5 endpoint making a V4 client
NewClientV5AsV4 == [conn \in Handlers |-> NewClient(4, conn)]

\* rpc.NewClientV5, as RegisterV5 wraps it (server.go:408-410)
NewClientV5 == [conn \in Handlers |-> NewClient(5, conn)]

\* rpc.NewClientV6, as RegisterV6 wraps it (server.go:414-416)
NewClientV6 == [conn \in Handlers |-> NewClient(6, conn)]

\* a request that has not come in
IdleHandler ==
    [pc |-> "idle", endpoint |-> 0, header |-> "", inst |-> "", err |-> nil,
     status |-> NoStatusCode, rpcClient |-> NoClient, registered |-> 0,
     registerErr |-> nil, closes |-> 0, closeErr |-> nil]

\* the upgrade gave a connection whatever it returned
UpgradedAlways(err) == TRUE

\* server.go:434: the upgrade gave a connection
Upgraded(err) == err = nil

\* server.go:426-447, up to the call of RegisterDaemon: the request of task h,
\* with its instance header, what websocket.Upgrade returns, the endpoint the
\* router took the request to (server.go:51-53), and the newRPCFn the endpoint
\* hands over, a function of the connection
doRegister(h, header, upgradeErr, endpoint, newRPCFn) ==
    /\ handler[h].pc = "idle"
    /\ LET inst == getInstanceID(header)
       IN  IF ~Upgraded(upgradeErr)
           THEN /\ handler' = [handler EXCEPT ![h] =
                        [@ EXCEPT !.pc = "done", !.endpoint = endpoint,
                                  !.header = header, !.inst = inst,
                                  !.err = upgradeErr,
                                  !.status = StatusBadRequest]]
                /\ UNCHANGED daemons
           ELSE /\ handler' = [handler EXCEPT ![h] =
                        [@ EXCEPT !.pc = "registered", !.endpoint = endpoint,
                                  !.header = header, !.inst = inst,
                                  !.err = upgradeErr,
                                  !.rpcClient = newRPCFn[h],
                                  !.registered = @ + 1]]
                /\ daemons' = [daemons EXCEPT ![inst] = h]
    /\ UNCHANGED <<pollVars, gitVars>>

UpgradeErrors == {nil, "bad handshake"}

\* server.go:401-405
RegisterV4 ==
    \E h \in Handlers, header \in Headers, upgradeErr \in UpgradeErrors :
        doRegister(h, header, upgradeErr, 4, NewClientV4)

\* server.go:407-411
RegisterV5 ==
    \E h \in Handlers, header \in Headers, upgradeErr \in UpgradeErrors :
        doRegister(h, header, upgradeErr, 5, NewClientV5)

\* server.go:413-417
RegisterV6 ==
    \E h \in Handlers, header \in Headers, upgradeErr \in UpgradeErrors :
        doRegister(h, header, upgradeErr, 6, NewClientV6)

\* line 451 is reached with RegisterDaemon still blocked
AfterRegisterDaemonEarly(h) == handler[h].pc \in {"registered", "returned"}

\* server.go:447 has returned
AfterRegisterDaemon(h) == handler[h].pc = "returned"

\* server.go:447: RegisterDaemon returns, the daemon having disconnected or the
\* registry having failed; the registry no longer lists the daemon
RegisterDaemonReturns ==
    /\ \E h \in Handlers, err \in {nil, "ERegistry"} :
          /\ handler[h].pc = "registered"
          /\ handler' = [handler EXCEPT ![h] = [@ EXCEPT !.pc = "returned", !.registerErr = err]]
          /\ daemons' = [i \in InstanceIDs |-> IF daemons[i] = h THEN 0 ELSE daemons[i]]
    /\ UNCHANGED <<pollVars, gitVars>>

\* server.go:451: rpcClient.Close(), whose error is dropped; doRegister returns
Close ==
    /\ \E h \in Handlers, err \in {nil, "EClose"} :
          /\ AfterRegisterDaemon(h)
          /\ handler' = [handler EXCEPT ![h] =
                  [@ EXCEPT !.pc = "done", !.rpcClient.closed = TRUE,
                            !.closes = @ + 1, !.closeErr = err]]
    /\ UNCHANGED daemons
    /\ UNCHANGED <<pollVars, gitVars>>

\* no request has come in
RegIdle ==
    /\ handler = [h \in Handlers |-> IdleHandler]
    /\ daemons = [i \in InstanceIDs |-> 0]

(***************************************************************************)
(* Specifications.                                                         *)
(***************************************************************************)
InitPollCommon ==
    /\ pc = "start"
    /\ now = 0
    /\ maxDelay = 0 /\ finish = 0 /\ delay = 0
    /\ lastOk = FALSE /\ lastErr = nil
    /\ calls = 0 /\ firstTerminal = 0 /\ sleepsAfterTerminal = 0
    /\ wait = -1 /\ prevWait = -1
    /\ lastStatus = NoStatus /\ sawQueued = FALSE /\ lastSync = NoSync
    /\ result = ZeroMetadata
    /\ stdout = <<>>
    /\ ret = nil /\ retResult = NoMetadata

\* backoff(initialDelay, factor, maxFactor, timeout, f) for any f
InitBackoff ==
    /\ InitPollCommon
    /\ GitIdle
    /\ RegIdle
    /\ entry = "backoff" /\ f = "generic"
    /\ sync = FALSE /\ syncArg = EmptyRevision
    /\ initialDelay \in 1..MaxInitialDelay
    /\ factor \in 1..MaxFactorArg
    /\ maxFactor \in 1..MaxFactorArg
    /\ timeout \in 1..MaxTimeout

\* await(stdout, client, jobID, sync), awaitJob(client, jobID) or
\* awaitSync(client, commitRef)
InitAwait ==
    /\ InitPollCommon
    /\ GitIdle
    /\ RegIdle
    /\ entry \in {"await", "awaitJob", "awaitSync"}
    /\ f = IF entry = "awaitSync" THEN "sync" ELSE "job"
    /\ sync \in (IF entry = "await" THEN BOOLEAN ELSE {FALSE})
    /\ syncArg \in (IF entry = "awaitSync" THEN {LongRevision} ELSE {EmptyRevision})
    /\ initialDelay = AwaitInitialDelay
    /\ factor = AwaitFactor
    /\ maxFactor = AwaitMaxFactor
    /\ timeout = AwaitTimeout

NextBackoff == Start \/ BackoffLoop \/ GenericPoll \/ BackoffSleep \/ Tick

NextAwait == Start \/ BackoffLoop \/ JobPoll \/ SyncPoll \/ BackoffSleep \/ Tick

SpecBackoff == InitBackoff /\ [][NextBackoff]_vars

\* The calling task keeps running, and the clock keeps advancing: it advances
\* wherever the task is, and Tick, which shows the advance at the two places
\* that read the clock, is taken again and again while the task passes them.
FairBackoff ==
    /\ InitBackoff
    /\ [][NextBackoff]_vars
    /\ WF_vars(Start \/ BackoffLoop \/ GenericPoll \/ BackoffSleep)
    /\ SF_vars(Tick)

SpecAwait == InitAwait /\ [][NextAwait]_vars

\* the poller is not running
PollIdle ==
    /\ InitPollCommon
    /\ entry = "none" /\ f = "none"
    /\ sync = FALSE /\ syncArg = EmptyRevision
    /\ initialDelay = 0 /\ factor = 0 /\ maxFactor = 0 /\ timeout = 0

\* an upstream with one commit and no notes; the callers of the git package
InitGit ==
    /\ PollIdle
    /\ GitIdle
    /\ RegIdle

NextGit == Clone \/ WorkingClone \/ Clean \/ Mutate \/ CommitAndPush \/ Pull

Spec == InitGit /\ [][NextGit]_vars

\* a Checkout that Repo{URL: RepoURL}.Clone(cfg) returns in directory k
ClonedCheckout(k) ==
    [url |-> RepoURL, Dir |-> RepoDir(k), NotesRef |-> NotesRefName,
     realNotesRef |-> getNotesRef(NotesRefName)]

\* Clone has returned the Checkouts cs, in directories 1..Len(cs), of an
\* upstream whose branch is rh and that has no notes and no sync tag
Cloned(cs, rh) ==
    /\ fs = UNION {{TmpDir(k), RepoDir(k)} : k \in 1..Len(cs)}
    /\ co = cs
    /\ cleans = [k \in Clones |-> 0]
    /\ head = [k \in Clones |-> IF k <= Len(cs) THEN rh ELSE NoHead]
    /\ notes = [k \in Clones |-> {}]
    /\ dirtyIn = [k \in Clones |-> FALSE]
    /\ dirtyOut = [k \in Clones |-> FALSE]
    /\ rhead = rh
    /\ rnotes = {}
    /\ tag = [k \in Clones |-> NoTag]
    /\ rtag = NoTag
    /\ keyMode = "0644"
    /\ nextCommit = rh[Len(rh)] + 1
    /\ produced = {}
    /\ op = Op("Clone", Len(cs), nil)

\* the daemon's sync loop: two clones of an upstream with one commit, which
\* commit, push and move the sync tag
InitSync ==
    /\ PollIdle
    /\ Cloned(<<ClonedCheckout(1), ClonedCheckout(2)>>, <<1>>)
    /\ RegIdle

NextSync == Mutate \/ CommitAndPush \/ MoveTagAndPush

SpecSync == InitSync /\ [][NextSync]_vars

\* a job that works in a working clone: the reference copy has been cloned from
\* an upstream with two commits
InitWorking ==
    /\ PollIdle
    /\ Cloned(<<ClonedCheckout(1)>>, <<1, 2>>)
    /\ RegIdle

NextWorking ==
    \/ WorkingClone \/ Mutate \/ CommitAndPush \/ Pull \/ MoveTagAndPush \/ Clean

SpecWorking == InitWorking /\ [][NextWorking]_vars

\* the HTTP server with its registration endpoints
InitRegister ==
    /\ PollIdle
    /\ GitIdle
    /\ RegIdle

NextRegister == RegisterV4 \/ RegisterV5 \/ RegisterV6 \/ RegisterDaemonReturns \/ Close

SpecRegister == InitRegister /\ [][NextRegister]_vars

(***************************************************************************)
(* Claims about the poller.                                                *)
(***************************************************************************)
\* C1: with a predicate that answers (false, nil) on every call, backoff
\* eventually returns, what it returns is ErrTimeout, and the deadline
\* now+timeout has been reached when it returns. (No call has reported done or
\* an error exactly when firstTerminal = 0; backoff returns whatever the
\* predicate answers.)
BackoffTerminates ==
    /\ <>(pc = "done")
    /\ [](pc = "done" /\ firstTerminal = 0 => ret = ErrTimeout /\ now >= timeout)

BackoffTimedOut ==
    pc = "done" /\ firstTerminal = 0 /\ calls >= 2 /\ ret = ErrTimeout

\* C2: once a call of the predicate has reported done or an error, backoff has
\* returned: that call is the last one (calls is its number), no sleep followed
\* it, and backoff returned that call's error, nil for a plain done.
ReturnsAtFirstTerminal ==
    firstTerminal # 0 =>
        /\ pc = "done"
        /\ calls = firstTerminal
        /\ sleepsAfterTerminal = 0
        /\ (lastOk \/ lastErr # nil)
        /\ ret = lastErr

DoneOnThirdCall ==
    /\ pc = "done" /\ firstTerminal = 3 /\ calls = 3
    /\ lastOk /\ lastErr = nil /\ ret = nil
    /\ now < finish

\* C3 as claimed: once a status poll has observed the job failed, awaitJob has
\* stopped polling and has returned a failure, the job's recorded error,
\* whatever that error is.
FailedIsFailure ==
    (f = "job" /\ lastStatus.err = nil /\ lastStatus.StatusString = "failed") =>
        /\ pc = "done"
        /\ ret # nil
        /\ ret = lastStatus.Error

\* C4: a poll of SyncStatus (the step taken at line 77 when awaitSync's predicate
\* is polled) ends awaitSync with success when it answers no refs and no error,
\* goes on to line 82 when it answers refs and no error, and ends awaitSync with
\* the query's error when it answers an error, whatever the refs.
AwaitSyncOutcome ==
    [][(f = "sync" /\ pc = "call" /\ pc' # "call") =>
        LET r == lastSync'
        IN  /\ (r.err = nil /\ r.refs = <<>>) => (pc' = "done" /\ ret' = nil)
            /\ (r.err = nil /\ r.refs # <<>>) => (pc' = "after" /\ ret' = ret)
            /\ (r.err # nil) => (pc' = "done" /\ ret' = r.err)]_vars

SyncErrorWithNoRefs ==
    /\ f = "sync" /\ pc = "done"
    /\ lastSync.err # nil /\ lastSync.refs = <<>>
    /\ ret = lastSync.err

\* C5 as claimed: when await has seen the job queued and then succeeded with
\* metadata of a non-empty revision R, it has written "Job queued" and then
\* "Commit pushed: " with the first 7 characters of R; with sync it polled the
\* sync status of R, and once that answered no refs it wrote "Applied" and
\* returned nil.
AwaitEndToEnd ==
    (/\ entry = "await" /\ pc = "done" /\ sawQueued
     /\ lastStatus.err = nil /\ lastStatus.StatusString = "succeeded"
     /\ lastStatus.Result.kind = "CommitEventMetadata"
     /\ lastStatus.Result.Revision # EmptyRevision) =>
        LET R == lastStatus.Result.Revision
        IN  /\ Len(stdout) >= 2
            /\ stdout[1] = Line("Job queued", <<>>)
            /\ stdout[2] = Line("Commit pushed: ", SubSeq(R, 1, 7))
            /\ sync =>
                /\ syncArg = R
                /\ (lastSync.err = nil /\ lastSync.refs = <<>>) =>
                      /\ Len(stdout) = 3
                      /\ stdout[3] = Line("Applied", <<>>)
                      /\ ret = nil

\* C10 as claimed: every wait between two attempts is min(previous wait * factor,
\* initialDelay * maxFactor), so the waits never decrease.
WaitsNeverDecrease ==
    /\ wait <= initialDelay * maxFactor
    /\ (prevWait >= 0 /\ wait >= 0) =>
          /\ wait = Min(prevWait * factor, initialDelay * maxFactor)
          /\ wait >= prevWait

\* C10 as amended: the delay, and with it every wait, never exceeds
\* initialDelay*maxFactor; a sleep that is taken lasts min(previous sleep *
\* factor, initialDelay*maxFactor), the first one initialDelay; a sleep is
\* skipped (a wait of 0) only when the delay does not end before the deadline,
\* and after a skipped sleep every later one is skipped.
DelayGrowth ==
    /\ wait <= initialDelay * maxFactor
    /\ pc # "start" => (delay >= initialDelay /\ delay <= initialDelay * maxFactor)
    /\ (prevWait > 0 /\ wait > 0) =>
          wait = Min(prevWait * factor, initialDelay * maxFactor)
    /\ (prevWait = -1 /\ wait > 0) => wait = initialDelay
    /\ wait = 0 => now + delay >= finish
    /\ prevWait = 0 => wait = 0

CapReachedThenSkipped ==
    /\ prevWait = maxDelay /\ maxDelay > initialDelay
    /\ wait = 0

\* C11 as claimed: when awaitJob has returned on a poll that observed the job
\* succeeded, then with a result that is not commit metadata it returned the
\* error "Unknown result type", and with a result that is commit metadata it
\* returned that very result and a nil error.
AwaitJobReturnsResult ==
    (/\ entry = "awaitJob" /\ pc = "done"
     /\ lastStatus.err = nil /\ lastStatus.StatusString = "succeeded") =>
        IF lastStatus.Result.kind = "CommitEventMetadata"
        THEN ret = nil /\ retResult = lastStatus.Result
        ELSE ret = "Unknown result type"

\* C12: what await has written is a prefix of one of the traces
\*   "Job queued", "Nothing to do"
\*   "Job queued", "Commit pushed: <short revision>", "Applied":
\* "Job queued" is the first line from the call on; "Nothing to do" is the last
\* line only when await has returned nil; "Applied" is there only with sync
\* asked for, after a sync poll that answered no refs and no error, and with
\* await returned nil; and when await has returned an error, the output is what
\* it was when the error came up: "Job queued" alone for an error of the job
\* phase, "Job queued" and "Commit pushed" for one of the sync phase.
ProgressTrace ==
    entry = "await" =>
        /\ pc = "start" => stdout = <<>>
        /\ pc # "start" => (Len(stdout) >= 1 /\ stdout[1] = Line("Job queued", <<>>))
        /\ Len(stdout) <= 3
        /\ Len(stdout) >= 2 =>
              \/ stdout[2] = Line("Nothing to do", <<>>)
              \/ /\ stdout[2].text = "Commit pushed: "
                 /\ Len(stdout[2].arg) \in 1..7
        /\ (Len(stdout) >= 2 /\ stdout[2] = Line("Nothing to do", <<>>)) =>
              (Len(stdout) = 2 /\ pc = "done" /\ ret = nil)
        /\ Len(stdout) = 3 =>
              /\ stdout[3] = Line("Applied", <<>>)
              /\ stdout[2].text = "Commit pushed: "
              /\ sync /\ f = "sync"
              /\ lastSync.err = nil /\ lastSync.refs = <<>>
              /\ pc = "done" /\ ret = nil
        /\ (pc = "done" /\ ret # nil) =>
              /\ f = "job" => stdout = <<Line("Job queued", <<>>)>>
              /\ f = "sync" => (Len(stdout) = 2 /\ stdout[2].text = "Commit pushed: ")

ErrorAfterQueued ==
    /\ entry = "await" /\ pc = "done" /\ sawQueued
    /\ ret = "EJob"
    /\ stdout = <<JobQueued>>

(***************************************************************************)
(* Claims about the registration of daemons.                               *)
(***************************************************************************)
\* C13: a request whose upgrade succeeded calls RegisterDaemon once, with the
\* instance of its header (the default instance without one) and the client it
\* made; while the call has not returned the client is open and Close has not
\* been called; Close is called once, after the call has returned, when the
\* registry no longer lists the client; and whatever RegisterDaemon and Close
\* return, nothing is written to the response.
RegistrationLifecycle ==
    /\ [](\A h \in Handlers :
            LET r == handler[h]
            IN  /\ r.registered <= 1 /\ r.closes <= 1
                /\ (r.pc # "idle" /\ r.err = nil) =>
                      /\ r.registered = 1
                      /\ r.inst = (IF r.header = "" THEN "<default-instance-id>"
                                   ELSE r.header)
                      /\ r.rpcClient.conn = h
                      /\ r.status = 0
                /\ r.pc \in {"registered", "returned"} =>
                      (r.closes = 0 /\ ~r.rpcClient.closed)
                /\ (r.closes = 1 \/ r.rpcClient.closed) =>
                      /\ r.pc = "done" /\ r.registered = 1
                      /\ r.closes = 1 /\ r.rpcClient.closed
                      /\ \A i \in InstanceIDs : daemons[i] # h
                /\ (r.pc = "done" /\ r.err = nil) => r.closes = 1
                /\ \A i \in InstanceIDs :
                      daemons[i] = h => (r.pc = "registered" /\ r.inst = i))
    /\ [][\A h \in Handlers :
            handler'[h].registered # handler[h].registered =>
                /\ handler'[h].pc = "registered"
                /\ daemons'[handler'[h].inst] = h]_vars

ErrorsNotPropagated ==
    \E h \in Handlers :
        /\ handler[h].pc = "done"
        /\ handler[h].header = ""
        /\ handler[h].registered = 1 /\ handler[h].closes = 1
        /\ handler[h].registerErr # nil /\ handler[h].closeErr # nil
        /\ handler[h].status = NoStatusCode

\* C14: a request whose upgrade failed is answered with status 400, makes no
\* rpc client, calls neither RegisterDaemon nor Close, and its step leaves the
\* registry as it was.
UpgradeFailureHasNoEffect ==
    /\ [](\A h \in Handlers :
            handler[h].err # nil =>
                /\ handler[h].pc = "done"
                /\ handler[h].status = 400
                /\ handler[h].rpcClient = [version |-> 0, conn |-> 0, closed |-> FALSE]
                /\ handler[h].registered = 0
                /\ handler[h].closes = 0)
    /\ [][(\E h \in Handlers : handler[h].err = nil /\ handler'[h].err # nil) =>
            daemons' = daemons]_vars

UpgradeFailedBesideDaemon ==
    \E h, g \in Handlers :
        /\ handler[h].err # nil /\ handler[h].status = StatusBadRequest
        /\ handler[g].pc = "registered"
        /\ handler[g].inst = handler[h].inst
        /\ daemons[handler[h].inst] = g

(***************************************************************************)
(* Claims about the git checkout manager.                                  *)
(***************************************************************************)
\* C6: a call of CommitAndPush on a Checkout whose directory exists and has no
\* diff under the subpath returns ErrNoChanges, which no other exit returns, and
\* changes no branch, no notes ref, neither here nor upstream; and a call that
\* changes one of them found a diff under the subpath.
NoChangesIsNoOp ==
    [][op'.name = "CommitAndPush" =>
        LET c == co[op'.c]
            d == c.Dir[1]
            valid == c.Dir \in fs
        IN  /\ (valid /\ ~dirtyIn[d]) =>
                   /\ op'.err = "no changes made in repo"
                   /\ UNCHANGED <<head, notes, rhead, rnotes, nextCommit, fs,
                                  dirtyIn, dirtyOut>>
            /\ (valid /\ dirtyIn[d]) => op'.err # "no changes made in repo"
            /\ (head' # head \/ notes' # notes \/ rhead' # rhead \/ rnotes' # rnotes) =>
                   (valid /\ dirtyIn[d])]_vars

NoChangesDespiteOtherChanges ==
    /\ op.name = "CommitAndPush" /\ op.err = ErrNoChanges
    /\ Live(co[op.c])
    /\ dirtyOut[DirId(co[op.c])]
    /\ rhead = <<1>>

\* C7 as claimed: once Clean has been called on every Checkout that Clone and
\* WorkingClone returned, no directory they created exists.
NoTempDirLeak ==
    (\A i \in 1..Len(co) : cleans[i] > 0) => fs = {}

\* C8: GetNote on the revision of a commit that CommitAndPush(message, note)
\* returned nil for, in the same Checkout while its directory exists, returns
\* the note that was given and no error.
NoteRoundTrip ==
    \A p \in produced :
        Live(co[p.c]) => getNote(co[p.c], p.rev) = [note |-> p.note, err |-> nil]

NoteReadBack ==
    \E p \in produced :
        /\ Live(co[p.c])
        /\ p.note.Spec = "specB"
        /\ getNote(co[p.c], p.rev).note = p.note
        /\ <<p.rev, Marshal(p.note)>> \in rnotes

\* C9: Clean returns no error; on a zero-value Checkout, and on a Checkout it
\* has been called on before, it leaves the directories as they are.
CleanIsIdempotent ==
    [][op'.name = "Clean" =>
        /\ op'.err = nil
        /\ co[op'.c].Dir = <<>> => fs' = fs
        /\ cleans[op'.c] > 0 => fs' = fs]_vars

CleanedTwice ==
    \E i \in 1..Len(co) :
        /\ co[i].Dir # EmptyDir
        /\ cleans[i] = 2
        /\ op = Op("Clean", i, nil)
        /\ \E j \in 1..Len(co) : Live(co[j])

\* C15 as claimed: a call of CommitAndPush with a note that has made its commit
\* and attached the note leaves, when it returns nil, the upstream's branch at
\* the new commit and the upstream's notes ref with the note of that commit;
\* and however it returns, the upstream has the new commit exactly when it has
\* that commit's note.
CommitAndNoteTogether ==
    [][(/\ op'.name = "CommitAndPush"
        /\ nextCommit' # nextCommit
        /\ \E n \in notes'[DirId(co[op'.c])] : n[1] = nextCommit) =>
          /\ op'.err = nil =>
                /\ rhead'[Len(rhead')] = nextCommit
                /\ \E n \in rnotes' :
                      n[1] = nextCommit /\ n \in notes'[DirId(co[op'.c])]
          /\ (\E j \in 1..Len(rhead') : rhead'[j] = nextCommit)
                <=> (\E n \in rnotes' : n[1] = nextCommit)]_vars

\* C16: a call of Pull on a Checkout whose branch has diverged from the
\* upstream's returns an error and leaves HEAD where it was; no call of Pull
\* makes a commit, HEAD is afterwards where it was or where the upstream's branch
\* is; with the upstream reachable, no divergence and no notes ref upstream the
\* call fast-forwards and returns nil; and a call returns nil only when the
\* upstream has no notes ref or the notes were fetched.
PullIsFastForwardOnly ==
    [][op'.name = "Pull" =>
        LET c == co[op'.c]
            d == c.Dir[1]
            behind == IsPrefix(head[d], rhead)
            ahead == IsPrefix(rhead, head[d])
        IN  /\ nextCommit' = nextCommit
            /\ head'[d] = head[d] \/ (behind /\ head'[d] = rhead)
            /\ c.Dir \in fs =>
                 /\ (~behind /\ ~ahead) => (op'.err # nil /\ head'[d] = head[d])
                 /\ ((behind \/ ahead) /\ rnotes = {}
                      /\ op'.err \notin {"git pull: unreachable",
                                         "git fetch: unreachable"}) =>
                        /\ op'.err = nil
                        /\ head'[d] = (IF behind THEN rhead ELSE head[d])
                 /\ op'.err = nil =>
                        \/ (rnotes = {} /\ notes'[d] = notes[d])
                        \/ notes'[d] = rnotes]_vars

PullRefusedOnDivergence ==
    /\ op.name = "Pull" /\ op.err = "git pull: not fast-forward"
    /\ Live(co[op.c])
    /\ LET h == head[DirId(co[op.c])]
       IN  /\ Len(h) = 2 /\ Len(rhead) = 2
           /\ h[2] # rhead[2]

\* C18 as claimed: for a commit of a Checkout that has no note under the notes
\* ref, GetNote returns no note and no error.
AbsenceIsNotAnError ==
    \A i \in 1..Len(co) :
        Live(co[i]) =>
            \A j \in 1..Len(head[DirId(co[i])]) :
                LET rev == head[DirId(co[i])][j]
                IN  (~\E n \in notes[DirId(co[i])] : n[1] = rev) =>
                        getNote(co[i], rev) = [note |-> NoNote, err |-> nil]

TagMovesAnywhere ==
    [][op'.name = "MoveTagAndPush" =>
        LET c == co[op'.c]
            d == c.Dir[1]
            ref == op'.arg[1]
        IN  /\ op'.err = nil => (tag'[d] = ref /\ rtag' = ref)
            /\ op'.err = "pushing tag to origin" => rtag' = rtag
            /\ (c.Dir \in fs /\ \E j \in 1..Len(head[d]) : head[d][j] = ref) =>
                  op'.err \in {nil, "pushing tag to origin"}]_vars

TagMovedToUnrelated ==
    /\ op.name = "MoveTagAndPush" /\ op.err = nil
    /\ op.arg = <<3, 2>>
    /\ head[DirId(co[op.c])] = <<1, 3>>
    /\ rtag = 3 /\ tag[DirId(co[op.c])] = 3

\* C19: the Checkout that WorkingClone returns with a nil error is the Checkout
\* it was called on but for its directory, which is a new one; and an operation
\* on a Checkout (a mutation of its files, CommitAndPush, Pull, MoveTagAndPush,
\* Clean) leaves every Checkout of another directory with its directory, its
\* branch, its notes ref, its sync tag and its files as they were.
WorkingCloneIsolated ==
    /\ [][(op'.name = "WorkingClone" /\ op'.err = nil) =>
            LET parent == co[op'.arg[1]]
                w == co'[op'.c]
            IN  /\ w.Dir # <<>> /\ w.Dir # parent.Dir
                /\ w.Dir \notin fs /\ w.Dir \in fs'
                /\ \A j \in 1..Len(co) : co[j].Dir # w.Dir
                /\ w.url = parent.url
                /\ w.NotesRef = parent.NotesRef
                /\ w.realNotesRef = parent.realNotesRef]_vars
    /\ [][op'.name \in {"Mutate", "CommitAndPush", "Pull", "MoveTagAndPush", "Clean"} =>
            \A j \in 1..Len(co) :
                (co[j].Dir # <<>> /\ co[j].Dir # co[op'.c].Dir) =>
                    LET d == co[j].Dir[1]
                    IN  /\ (co[j].Dir \in fs) = (co[j].Dir \in fs')
                        /\ head'[d] = head[d] /\ notes'[d] = notes[d]
                        /\ tag'[d] = tag[d]
                        /\ dirtyIn'[d] = dirtyIn[d] /\ dirtyOut'[d] = dirtyOut[d]]_vars

WorkingCloneUsedAndCleaned ==
    /\ Len(co) = 2
    /\ op = Op("Clean", 2, nil)
    /\ co[2].Dir # EmptyDir /\ ~Live(co[2])
    /\ rhead = <<1, 2, 3>> /\ rnotes # {} /\ rtag = 3
    /\ Live(co[1])
    /\ head[1] = <<1, 2>> /\ notes[1] = {} /\ tag[1] = NoTag

\* C21: a request whose upgrade succeeded has the client of its endpoint's
\* version over its own connection, and is registered under the instance of its
\* own header; a step of one request changes nothing of another request, and
\* leaves a daemon that is registered under another instance registered.
RegistrationsIndependent ==
    /\ [](\A h \in Handlers :
            LET r == handler[h]
            IN  (r.pc # "idle" /\ r.err = nil) =>
                    /\ r.endpoint \in {4, 5, 6}
                    /\ r.rpcClient.version = r.endpoint
                    /\ r.rpcClient.conn = h
                    /\ r.inst = (IF r.header = "" THEN "<default-instance-id>"
                                 ELSE r.header))
    /\ [][\A h, g \in Handlers :
            (h # g /\ handler'[h] # handler[h]) =>
                /\ handler'[g] = handler[g]
                /\ (/\ handler[g].pc = "registered"
                    /\ handler[g].inst # handler'[h].inst
                    /\ daemons[handler[g].inst] = g) =>
                        daemons'[handler[g].inst] = g]_vars

DisconnectBesideLiveDaemon ==
    \E h, g \in Handlers :
        /\ handler[h].pc = "done" /\ handler[h].rpcClient.closed
        /\ handler[h].endpoint = 5 /\ handler[h].rpcClient.version = 5
        /\ handler[g].pc = "registered" /\ handler[g].endpoint = 6
        /\ handler[g].inst # handler[h].inst
        /\ daemons[handler[g].inst] = g
        /\ ~handler[g].rpcClient.closed

\* C22 as claimed: a call of Clone that fails returns NoRepoError, with no
\* directory made and the key's permissions as they were, or, when it fails in
\* git clone, in the author configuration, in the resolution of the notes ref or
\* in the fetch of the notes, a CloningError.
CloneFailsAsCloningError ==
    [][(op'.name = "Clone" /\ op'.err # nil) =>
        /\ op'.err = "NoRepoError" => (fs' = fs /\ keyMode' = keyMode)
        /\ op'.err \notin {"NoRepoError", "TempDir", "stat", "chmod"} =>
              op'.err = "CloningError"]_vars

\* C23: under every notes ref, of a clone and of the upstream, a commit has at
\* most one note; and no operation but Clean takes a note away or changes it: a
\* note that is under a notes ref before CommitAndPush, Pull, Clone, WorkingClone
\* or MoveTagAndPush is under it afterwards, with the same body.
OneNotePerCommit ==
    /\ [](/\ \A d \in Clones : \A m, n \in notes[d] : m[1] = n[1] => m = n
          /\ \A m, n \in rnotes : m[1] = n[1] => m = n)
    /\ [][op'.name # "Clean" =>
            /\ \A d \in Clones : notes[d] \subseteq notes'[d]
            /\ rnotes \subseteq rnotes']_vars

TwoNotesUpstream ==
    /\ op.name = "CommitAndPush" /\ op.err = nil
    /\ Cardinality(rnotes) = 2
    /\ \E m, n \in rnotes : m[1] = 2 /\ n[1] = 3
    /\ rnotes = notes[DirId(co[op.c])]

\* C24 as claimed: when CommitAndPush has returned ErrNoChanges on a Checkout
\* whose directory exists, every commit of the Checkout's branch is on the
\* upstream's branch and every note of its notes ref is under the upstream's.
NoChangesMeansAllPushed ==
    (op.name = "CommitAndPush" /\ op.err = "no changes made in repo"
        /\ co[op.c].Dir \in fs) =>
        LET d == co[op.c].Dir[1]
        IN  /\ \A j \in 1..Len(head[d]) :
                  \E k \in 1..Len(rhead) : rhead[k] = head[d][j]
            /\ notes[d] \subseteq rnotes

(***************************************************************************)
(* Claims about the pace of backoff.                                       *)
(***************************************************************************)
\* the delays of the sequence initialDelay, initialDelay*factor, ... (capped)
\* that fit before the deadline, one after the other, counted from n
RECURSIVE DelaysThatFit(_, _, _)
DelaysThatFit(d, elapsed, n) ==
    IF elapsed + d < timeout /\ n < MaxCalls
    THEN DelaysThatFit(Min(d * factor, initialDelay * maxFactor), elapsed + d, n + 1)
    ELSE n

\* C25 as claimed: an invocation of the predicate begins before the deadline;
\* between two invocations backoff has slept, for the delay; and the
\* invocations are at most one more than the delays that fit before the
\* deadline.
NeverBackToBack ==
    /\ pc = "call" => now < finish
    /\ wait # 0
    /\ pc # "start" => calls <= 1 + DelaysThatFit(initialDelay, 0, 0)

\* C25 as amended: an invocation of the predicate begins before the deadline;
\* after an invocation that reports neither done nor an error, backoff sleeps
\* for the current delay when the delay ends before the deadline, and goes on
\* to the next invocation without sleeping when it does not.
SleepsOnlyWhenTimeAllows ==
    /\ [](pc = "call" => now < finish)
    /\ [][(pc = "after" /\ pc' = "loop") =>
            IF now + delay < finish
            THEN now' = now + delay
            ELSE now' = now]_vars

PolledBackToBack ==
    /\ pc = "call" /\ calls = 3
    /\ wait = 0 /\ prevWait = 0
    /\ now < finish

====
